---- MODULE Spec2Model ----
(***************************************************************************)
(* doc/Working_with_Bokeh.ipynb as a state machine.                        *)
(*                                                                         *)
(* The notebook is a list of cells; the code cells are sequences of        *)
(* top-level statements.  A kernel holds one namespace, runs the requests  *)
(* of its queue one at a time, statement by statement, and leaves a cell   *)
(* at the first statement that raises.  The local files the load calls     *)
(* name may or may not exist.                                              *)
(***************************************************************************)
EXTENDS Integers, Sequences, FiniteSets, TLC

\* Number of requests (Run All, or run one cell) the user sends in a behaviour.
MaxExec == 3

----------------------------------------------------------------------------
(* Statements *)

NoIO == [call |-> "", path |-> "", via |-> ""]

\* A read of a top-level name; key # "" is the subscript name[key].
Rd(n) == [name |-> n, key |-> ""]
Sub(n, k) == [name |-> n, key |-> k]

\* import ... as name / from ... import name
Import(name, ev) ==
    [op |-> "import", acc |-> <<>>, io |-> NoIO, binds |-> name, ev |-> ev]

\* name = <expression>
Assign(name, acc, io, ev) ==
    [op |-> "assign", acc |-> acc, io |-> io, binds |-> name, ev |-> ev]

\* a bare expression statement
Expr(acc, ev) ==
    [op |-> "expr", acc |-> acc, io |-> NoIO, binds |-> "", ev |-> ev]

\* a %%opts cell magic line
Magic(m) ==
    [op |-> "magic", acc |-> <<>>, io |-> NoIO, binds |-> "", ev |-> m]

----------------------------------------------------------------------------
(* The code cells, by their index in the notebook's "cells" list *)

\* Cell 0 with the import of ccrs forgotten.
Cell0_NoCcrs ==
    << Import("xr", "module"),
       Import("np", "module"),
       Import("pd", "module"),
       Import("hv", "module"),
       Import("gv", "module"),
       Import("gf", "module"),
       Import("cartopy", "module"),
       Import("STAMEN_TONER", "STAMEN_TONER"),
       Import("WMTSTileSource", "class"),
       Expr(<<Rd("hv")>>, "notebook_extension") >>

Cell0 ==
    << Import("xr", "module"),
       Import("np", "module"),
       Import("pd", "module"),
       Import("hv", "module"),
       Import("gv", "module"),
       Import("gf", "module"),
       Import("cartopy", "module"),
       Import("ccrs", "module"),
       Import("STAMEN_TONER", "STAMEN_TONER"),
       Import("WMTSTileSource", "class"),
       Expr(<<Rd("hv")>>, "notebook_extension") >>

\* The entries of the tiles dict literal, in source order: <<key, value>>;
\* a value is WMTSTileSource(url=...) or a name.
TileEntries ==
    << <<"OpenMap", [wrap |-> TRUE, of |-> "http://c.tile.openstreetmap.org/{Z}/{X}/{Y}.png"]>>,
       <<"ESRI", [wrap |-> TRUE, of |-> "https://server.arcgisonline.com/ArcGIS/rest/services/World_Imagery/MapServer/tile/{Z}/{Y}/{X}.jpg"]>>,
       <<"Wikipedia", [wrap |-> TRUE, of |-> "https://maps.wikimedia.org/osm-intl/{Z}/{X}/{Y}@2x.png"]>>,
       <<"Stamen Toner", [wrap |-> FALSE, of |-> "STAMEN_TONER"]>> >>

Cell4 ==
    << Assign("tiles", <<Rd("WMTSTileSource"), Rd("STAMEN_TONER")>>, NoIO, "tiles") >>

Cell6 ==
    << Magic("opts"),
       Expr(<<Rd("hv"), Rd("tiles"), Rd("gv"), Rd("ccrs")>>, "NdLayout") >>

\* The population dataset declared without its Year key dimension.
PopulationKdims_NoYear == <<"City", "Country">>

PopulationKdims == <<"City", "Country", "Year">>

\* Cell 9 loading the other CSV file of the assets directory.
Cell9_ReadsReferendum ==
    << Assign("cities", <<Rd("pd")>>,
              [call |-> "pd.read_csv", path |-> "./assets/referendum.csv", via |-> ""],
              "DataFrame"),
       Assign("population", <<Rd("gv"), Rd("cities")>>, NoIO, "population"),
       Expr(<<Rd("cities")>>, "head") >>

Cell9 ==
    << Assign("cities", <<Rd("pd")>>,
              [call |-> "pd.read_csv", path |-> "./assets/cities.csv", via |-> ""],
              "DataFrame"),
       Assign("population", <<Rd("gv"), Rd("cities")>>, NoIO, "population"),
       Expr(<<Rd("cities")>>, "head") >>

PointsKdims == <<"Longitude", "Latitude">>
PointsVdims == <<"Population", "City", "Country">>

Cell11 ==
    << Magic("opts"),
       Expr(<<Rd("gv"), Sub("tiles", "Wikipedia"), Rd("population"), Rd("gv"), Rd("ccrs")>>,
            "points") >>

\* Cell 14 saving the table it loaded back to its file.
Cell14_Saves ==
    << Assign("shapefile", <<>>, NoIO, "str"),
       Assign("shapes", <<Rd("cartopy"), Rd("shapefile")>>,
              [call |-> "cartopy.io.shapereader.Reader", path |-> "", via |-> "shapefile"],
              "Reader"),
       Assign("referendum", <<Rd("pd")>>,
              [call |-> "pd.read_csv", path |-> "./assets/referendum.csv", via |-> ""],
              "DataFrame"),
       [op |-> "expr", acc |-> <<Rd("referendum")>>,
        io |-> [call |-> "to_csv", path |-> "./assets/referendum.csv", via |-> ""],
        binds |-> "", ev |-> "to_csv"],
       Assign("referendum", <<Rd("hv"), Rd("referendum")>>, NoIO, "hv.Dataset") >>

Cell14 ==
    << Assign("shapefile", <<>>, NoIO, "str"),
       Assign("shapes", <<Rd("cartopy"), Rd("shapefile")>>,
              [call |-> "cartopy.io.shapereader.Reader", path |-> "", via |-> "shapefile"],
              "Reader"),
       Assign("referendum", <<Rd("pd")>>,
              [call |-> "pd.read_csv", path |-> "./assets/referendum.csv", via |-> ""],
              "DataFrame"),
       Assign("referendum", <<Rd("hv"), Rd("referendum")>>, NoIO, "hv.Dataset") >>

Cell16 ==
    << Magic("opts"),
       Expr(<<Rd("gv"), Rd("shapes"), Rd("referendum"), Rd("ccrs")>>, "Shape") >>

\* Cell 19 naming its gv.Dataset population, the name cell 9 binds.
Cell19_Rebinds ==
    << Magic("opts"),
       Assign("dataset", <<Rd("xr")>>,
              [call |-> "xr.open_dataset", path |-> "./sample-data/pre-industrial.nc", via |-> ""],
              "xr.Dataset"),
       Assign("population", <<Rd("gv"), Rd("dataset"), Rd("ccrs")>>, NoIO,
              "air_temperature"),
       Expr(<<Rd("population"), Rd("gf")>>, "image") >>

Cell19 ==
    << Magic("opts"),
       Assign("dataset", <<Rd("xr")>>,
              [call |-> "xr.open_dataset", path |-> "./sample-data/pre-industrial.nc", via |-> ""],
              "xr.Dataset"),
       Assign("air_temperature", <<Rd("gv"), Rd("dataset"), Rd("ccrs")>>, NoIO,
              "air_temperature"),
       Expr(<<Rd("air_temperature"), Rd("gf")>>, "image") >>

\* The code cells in notebook order.
CodeCells == <<0, 4, 6, 9, 11, 14, 16, 19>>

Cells == {CodeCells[i] : i \in 1..Len(CodeCells)}

Source(k) ==
    CASE k = 0 -> Cell0
      [] k = 4 -> Cell4
      [] k = 6 -> Cell6
      [] k = 9 -> Cell9
      [] k = 11 -> Cell11
      [] k = 14 -> Cell14
      [] k = 16 -> Cell16
      [] k = 19 -> Cell19

\* The string the statement shapefile = '...' binds.
ShapefilePath == "./assets/boundaries/boundaries.shp"

\* The local files the notebook's directory may hold.
InputFiles ==
    { "./assets/cities.csv",
      ShapefilePath,
      "./assets/referendum.csv",
      "./sample-data/pre-industrial.nc" }

\* Every top-level name some statement binds.
Names ==
    UNION { {Source(k)[i].binds : i \in 1..Len(Source(k))} : k \in Cells } \ {""}

----------------------------------------------------------------------------
(* Values *)

\* A namespace entry: the cell whose statement bound the name, and the value.
Unbound == [cell |-> -1, val |-> [type |-> "unbound"]]

IsBound(ns, n) == n \in DOMAIN ns /\ ns[n].cell # -1

BoundNames(ns) == {n \in DOMAIN ns : ns[n].cell # -1}

Range(s) == {s[i] : i \in 1..Len(s)}

\* A tiles value left as the bare URL string.
TileValueBare(e, ns) ==
    IF e.wrap THEN [type |-> "str", url |-> e.of] ELSE ns[e.of].val

\* One value of the tiles dict literal: the URL wrapped by the
\* WMTSTileSource constructor, or the object a name refers to.
TileValue(e, ns) ==
    IF e.wrap THEN [type |-> "WMTSTileSource", url |-> e.of] ELSE ns[e.of].val

\* A dict display {k1: v1, k2: v2, ...}: a later entry with the same key
\* replaces the earlier one.
DictOf(entries, ns) ==
    [k \in {entries[i][1] : i \in 1..Len(entries)} |->
        LET last == CHOOSE i \in 1..Len(entries) :
                        /\ entries[i][1] = k
                        /\ \A j \in 1..Len(entries) : entries[j][1] = k => j <= i
        IN  TileValue(entries[last][2], ns)]

\* dataset.to(element, kdims, vdims): the dataset's key dimensions that are
\* neither key nor value dimensions of the element are grouped over; the
\* result is a HoloMap over them, or the bare element when there are none.
To(ds, element, kdims, vdims) ==
    LET used == Range(kdims) \cup Range(vdims)
        Free(d) == d \notin used
        groupby == SelectSeq(ds.kdims, Free)
        el == [type |-> element, kdims |-> kdims, vdims |-> vdims]
    IN  IF groupby = <<>>
        THEN el
        ELSE [type |-> "HoloMap", kdims |-> groupby, element |-> el]

NoOut == [type |-> "none"]

\* The value a statement's expression yields in namespace ns (all the names
\* it reads are bound); s.acc[i] is the i-th name the expression reads.
Eval(s, ns) ==
    CASE s.ev = "module" -> [type |-> "module"]
      [] s.ev = "class" -> [type |-> "class"]
      [] s.ev = "STAMEN_TONER" ->
            [type |-> "WMTSTileSource", url |-> "STAMEN_TONER"]
      [] s.ev = "tiles" -> [type |-> "dict", items |-> DictOf(TileEntries, ns)]
      [] s.ev = "str" -> [type |-> "str", path |-> ShapefilePath]
      [] s.ev = "DataFrame" -> [type |-> "DataFrame", path |-> s.io.path]
      [] s.ev = "Reader" -> [type |-> "Reader", path |-> ns[s.io.via].val.path]
      [] s.ev = "population" ->
            [type |-> "gv.Dataset", kdims |-> PopulationKdims,
             data |-> ns[s.acc[2].name].val]
      [] s.ev = "hv.Dataset" ->
            [type |-> "hv.Dataset", data |-> ns[s.acc[2].name].val]
      [] s.ev = "xr.Dataset" -> [type |-> "xr.Dataset", path |-> s.io.path]
      [] s.ev = "air_temperature" ->
            [type |-> "gv.Dataset", kdims |-> <<"longitude", "latitude">>,
             data |-> ns[s.acc[2].name].val]
      [] s.ev = "NdLayout" ->
            LET items == ns[s.acc[2].name].val.items
            IN  [type |-> "NdLayout",
                 items |-> [n \in DOMAIN items |->
                               [type |-> "WMTS", src |-> items[n]]]]
      [] s.ev = "head" -> [type |-> "DataFrame.head", data |-> ns[s.acc[1].name].val]
      [] s.ev = "points" ->
            [type |-> "Overlay",
             layers |-> << [type |-> "WMTS",
                            src |-> ns[s.acc[2].name].val.items[s.acc[2].key]],
                           To(ns[s.acc[3].name].val, "Points",
                              PointsKdims, PointsVdims) >>]
      [] s.ev = "Shape" ->
            [type |-> "Shape", records |-> ns[s.acc[2].name].val,
             dataset |-> ns[s.acc[3].name].val]
      [] s.ev = "image" ->
            [type |-> "Overlay",
             layers |-> << [type |-> "Image", data |-> ns[s.acc[1].name].val],
                           [type |-> "Feature"] >>]
      [] OTHER -> NoOut

----------------------------------------------------------------------------
(* Faults *)

NoFault == [kind |-> "none", name |-> "", call |-> "", path |-> "", stmt |-> 0]

\* The first name of acc, in evaluation order, that is unbound (NameError)
\* or whose subscript is not a key of the dict it names (KeyError).
RECURSIVE FirstFault(_, _)
FirstFault(acc, ns) ==
    IF acc = <<>> THEN NoFault
    ELSE LET a == Head(acc)
         IN  IF ~IsBound(ns, a.name)
             THEN [NoFault EXCEPT !.kind = "NameError", !.name = a.name]
             ELSE IF a.key # "" /\ a.key \notin DOMAIN ns[a.name].val.items
             THEN [NoFault EXCEPT !.kind = "KeyError", !.name = a.key]
             ELSE FirstFault(Tail(acc), ns)

\* The file a load call opens: a literal, or the string a name is bound to.
PathOf(s, ns) == IF s.io.via # "" THEN ns[s.io.via].val.path ELSE s.io.path

\* How a library call opens its file.
IOMode(call) ==
    IF call \in {"pd.read_csv", "cartopy.io.shapereader.Reader", "xr.open_dataset"}
    THEN "r" ELSE "w"

Exists(fs, p) == p \in DOMAIN fs /\ fs[p].exists

\* What executing statement s raises, if anything.
StmtFault(s, ns, mg, fs) ==
    IF s.op = "magic"
    THEN IF s.ev \in mg THEN NoFault
         ELSE [NoFault EXCEPT !.kind = "UsageError", !.name = s.ev]
    ELSE LET f == FirstFault(s.acc, ns)
         IN  IF f.kind # "none" THEN f
             ELSE IF s.io.call # "" /\ IOMode(s.io.call) = "r"
                     /\ ~Exists(fs, PathOf(s, ns))
             THEN [NoFault EXCEPT !.kind = "LoadError", !.call = s.io.call,
                                  !.path = PathOf(s, ns)]
             ELSE NoFault

\* A raising statement caught, its name bound to a fallback value.
AfterFaultFallback(k, s, ns) ==
    IF s.binds = "" THEN ns
    ELSE [ns EXCEPT ![s.binds] = [cell |-> k, val |-> [type |-> "NoneType"]]]

\* A raising cell rolled back: what its statements bound is unbound again.
AfterFaultRollback(k, s, ns) ==
    [n \in DOMAIN ns |-> IF ns[n].cell = k THEN Unbound ELSE ns[n]]

\* The namespace a cell leaves behind when its statement s raises: what the
\* statements before s bound stays, s binds nothing.
AfterFault(k, s, ns) == ns

\* The namespace after statement s of cell k has run without raising.
AfterStmt(k, s, ns) ==
    IF s.binds = "" THEN ns
    ELSE [ns EXCEPT ![s.binds] = [cell |-> k, val |-> Eval(s, ns)]]

\* The files after statement s has run without raising.
FilesAfter(s, ns, fs) ==
    IF s.io.call # "" /\ IOMode(s.io.call) = "w"
    THEN LET p == PathOf(s, ns)
         IN  [q \in DOMAIN fs \cup {p} |->
                IF q = p
                THEN [exists |-> TRUE,
                      ver |-> IF p \in DOMAIN fs THEN fs[p].ver + 1 ELSE 1]
                ELSE fs[q]]
    ELSE fs

----------------------------------------------------------------------------
(* The kernel *)

VARIABLES
    files,      \* path -> [exists, ver]: the notebook directory
    ns,         \* name -> [cell, val]: the kernel's namespace
    magics,     \* the cell magics registered with the kernel
    queue,      \* the execute requests received and not yet started
    executing,  \* the cells the kernel is executing
    pc,         \* cell -> index of its next statement
    status,     \* cell -> result of its last execution
    err,        \* cell -> what its last execution raised
    out,        \* cell -> what its last execution displayed
    calls,      \* cell -> statements whose load call its last execution made
    loads,      \* every load call made so far: [cell, stmt, call, path]
    history     \* the requests the user has sent

vars ==
    <<files, ns, magics, queue, executing, pc, status, err, out, calls, loads,
      history>>

Init ==
    /\ files \in [InputFiles -> {[exists |-> TRUE, ver |-> 0],
                                 [exists |-> FALSE, ver |-> 0]}]
    /\ ns = [n \in Names |-> Unbound]
    /\ magics = {}
    /\ queue = <<>>
    /\ executing = {}
    /\ pc = [k \in Cells |-> 0]
    /\ status = [k \in Cells |-> "none"]
    /\ err = [k \in Cells |-> NoFault]
    /\ out = [k \in Cells |-> NoOut]
    /\ calls = [k \in Cells |-> <<>>]
    /\ loads = {}
    /\ history = <<>>

\* Run All: one execute request per code cell, top to bottom.  The kernel is
\* single-threaded: it reads its request channel only between cells, so a
\* request sent while a cell runs reaches the queue when that cell is left.
RunAll ==
    /\ Len(history) < MaxExec
    /\ executing = {}
    /\ queue' = queue \o CodeCells
    /\ history' = Append(history, "all")
    /\ UNCHANGED <<files, ns, magics, executing, pc, status, err, out, calls, loads>>

\* Run the single cell k.
Execute(k) ==
    /\ Len(history) < MaxExec
    /\ executing = {}
    /\ queue' = Append(queue, k)
    /\ history' = Append(history, "one")
    /\ UNCHANGED <<files, ns, magics, executing, pc, status, err, out, calls, loads>>

\* A kernel that starts the next request while a cell is still running.
StartEager ==
    /\ queue # <<>>
    /\ Head(queue) \notin executing
    /\ LET k == Head(queue)
       IN  /\ executing' = executing \cup {k}
           /\ queue' = Tail(queue)
           /\ pc' = [pc EXCEPT ![k] = 1]
           /\ status' = [status EXCEPT ![k] = "none"]
           /\ err' = [err EXCEPT ![k] = NoFault]
           /\ out' = [out EXCEPT ![k] = NoOut]
           /\ calls' = [calls EXCEPT ![k] = <<>>]
    /\ UNCHANGED <<files, ns, magics, loads, history>>

\* The kernel takes the next request once it executes nothing.
Start ==
    /\ queue # <<>>
    /\ executing = {}
    /\ LET k == Head(queue)
       IN  /\ executing' = {k}
           /\ queue' = Tail(queue)
           /\ pc' = [pc EXCEPT ![k] = 1]
           /\ status' = [status EXCEPT ![k] = "none"]
           /\ err' = [err EXCEPT ![k] = NoFault]
           /\ out' = [out EXCEPT ![k] = NoOut]
           /\ calls' = [calls EXCEPT ![k] = <<>>]
    /\ UNCHANGED <<files, ns, magics, loads, history>>

\* The kernel runs the next statement of cell k.  A statement that raises
\* ends the cell in error and aborts the requests still queued.
Step(k) ==
    /\ k \in executing
    /\ pc[k] \in 1..Len(Source(k))
    /\ LET s == Source(k)[pc[k]]
           fault == StmtFault(s, ns, magics, files)
           called == s.io.call # "" /\ FirstFault(s.acc, ns).kind = "none"
       IN  /\ calls' = IF called THEN [calls EXCEPT ![k] = Append(@, pc[k])]
                       ELSE calls
           /\ loads' = IF called
                       THEN loads \cup {[cell |-> k, stmt |-> pc[k],
                                         call |-> s.io.call, path |-> PathOf(s, ns)]}
                       ELSE loads
           /\ IF fault.kind # "none"
              THEN /\ executing' = executing \ {k}
                   /\ err' = [err EXCEPT ![k] = [fault EXCEPT !.stmt = pc[k]]]
                   /\ status' = [c \in Cells |->
                                   IF c = k THEN "error"
                                   ELSE IF c \in Range(queue) THEN "aborted"
                                   ELSE status[c]]
                   /\ queue' = <<>>
                   /\ ns' = AfterFault(k, s, ns)
                   /\ UNCHANGED <<files, magics, pc, out>>
              ELSE /\ ns' = AfterStmt(k, s, ns)
                   /\ files' = FilesAfter(s, ns, files)
                   /\ magics' = IF s.ev = "notebook_extension"
                                THEN magics \cup {"opts"} ELSE magics
                   /\ out' = IF s.op = "expr" /\ Eval(s, ns).type # "none"
                             THEN [out EXCEPT ![k] = Eval(s, ns)] ELSE out
                   /\ pc' = [pc EXCEPT ![k] = @ + 1]
                   /\ UNCHANGED <<queue, executing, status, err>>
    /\ UNCHANGED history

\* Cell k has run its last statement.
Finish(k) ==
    /\ k \in executing
    /\ pc[k] > Len(Source(k))
    /\ executing' = executing \ {k}
    /\ status' = [status EXCEPT ![k] = "ok"]
    /\ UNCHANGED <<files, ns, magics, queue, pc, err, out, calls, loads, history>>

Next ==
    \/ RunAll
    \/ \E k \in Cells : Execute(k)
    \/ Start
    \/ \E k \in Cells : Step(k)
    \/ \E k \in Cells : Finish(k)

Spec == Init /\ [][Next]_vars

----------------------------------------------------------------------------
(* Properties *)

\* The kernel executes nothing and has no request left.
Idle == executing = {} /\ queue = <<>>

\* The last execution of every code cell ran to its end.
AllOk == \A k \in Cells : status[k] = "ok"

\* The top-level names the statements of cell k read.
ReadsOf(k) ==
    UNION { {Source(k)[i].acc[j].name : j \in 1..Len(Source(k)[i].acc)} :
            i \in 1..Len(Source(k)) }

\* The cell that defines each name.
DefinedBy(n) == [x \in DOMAIN n |-> n[x].cell]

\* C1: in a top-to-bottom run of the fresh kernel (one Run All), every name
\* the statement about to run reads is bound, by an earlier cell or earlier
\* in the same cell, and no cell has ended in a NameError.
C1_TopToBottomReadsBound ==
    history = <<"all">> =>
        /\ \A k \in Cells : err[k].kind # "NameError"
        /\ \A k \in executing :
             pc[k] \in 1..Len(Source(k)) =>
                \A a \in Range(Source(k)[pc[k]].acc) :
                    /\ IsBound(ns, a.name)
                    /\ ns[a.name].cell <= k

\* C1 witness: the Run All of the fresh kernel has run every cell to its end.
C1_Witness ==
    history = <<"all">> /\ Idle /\ AllOk /\ BoundNames(ns) = Names

C3_ExactlyThreeFiles ==
    (Idle /\ AllOk) =>
        /\ Cardinality({l.path : l \in loads}) = 3
        /\ \A l1, l2 \in loads :
              l1.path = l2.path => l1.cell = l2.cell /\ l1.stmt = l2.stmt

\* C3 amended: the files read are among the four input files, each opened for
\* reading by a single load call; after a complete run all four, and no
\* other, have been read.
C3_ExactlyFourFiles ==
    /\ \A l \in loads : l.path \in InputFiles /\ IOMode(l.call) = "r"
    /\ \A l1, l2 \in loads :
          l1.path = l2.path => l1.cell = l2.cell /\ l1.stmt = l2.stmt
    /\ AllOk => /\ {l.path : l \in loads} = InputFiles
                /\ Cardinality({l.path : l \in loads}) = 4

\* C3 witness: a complete run, in which every load call has been made.
C3_Witness ==
    Idle /\ AllOk /\ Cardinality(loads) = 4

\* C4: no step changes the files: neither the contents nor the existence of
\* any file, and no file is created.
C4_FilesReadOnly ==
    [][files' = files]_vars

\* C4 witness: every cell has run to its end, and one has run again.
C4_Witness ==
    Idle /\ AllOk /\ Len(history) >= 2 /\ Cardinality(loads) = 4

\* C5: every value of tiles is a WMTSTileSource object, its names are the
\* distinct names of the literal, every source the NdLayout and the points
\* overlay hand to gv.WMTS is one of its values, and no subscript of
\* tiles raises KeyError.
C5_TilesWrapped ==
    /\ IsBound(ns, "tiles") =>
          LET items == ns["tiles"].val.items
          IN  /\ \A n \in DOMAIN items : items[n].type = "WMTSTileSource"
              /\ Cardinality(DOMAIN items) = Len(TileEntries)
              /\ "Wikipedia" \in DOMAIN items
    /\ out[6].type = "NdLayout" =>
          /\ DOMAIN out[6].items = DOMAIN ns["tiles"].val.items
          /\ \A n \in DOMAIN out[6].items :
                /\ out[6].items[n].type = "WMTS"
                /\ out[6].items[n].src.type = "WMTSTileSource"
    /\ out[11].type = "Overlay" =>
          /\ out[11].layers[1].type = "WMTS"
          /\ out[11].layers[1].src.type = "WMTSTileSource"
    /\ \A k \in Cells : err[k].kind # "KeyError"

\* C5 witness: the NdLayout cell and the points cell have both displayed.
C5_Witness ==
    out[6].type = "NdLayout" /\ out[11].type = "Overlay"

\* C6: a cell whose load call raised made that call once, stopped at that
\* statement in error with the call's own exception, and the name the
\* statement assigns has no value.
C6_NoRecovery ==
    \A k \in Cells :
        (status[k] = "error" /\ err[k].kind = "LoadError") =>
            LET s == Source(k)[err[k].stmt]
            IN  /\ k \notin executing
                /\ pc[k] = err[k].stmt
                /\ err[k].call = s.io.call
                /\ Cardinality({i \in 1..Len(calls[k]) : calls[k][i] = err[k].stmt}) = 1
                /\ ~IsBound(ns, s.binds)
                /\ ~Exists(files, err[k].path)

\* C6 witness: a load call has raised.
C6_Witness ==
    \E k \in Cells : status[k] = "error" /\ err[k].kind = "LoadError"

\* C7: the points cell displays a HoloMap keyed by Year and only Year: the
\* key dimensions of population that are neither key nor value dimensions of
\* the Points.
C7_HoloMapOverYear ==
    status[11] = "ok" =>
        LET hm == out[11].layers[2]
        IN  /\ hm.type = "HoloMap"
            /\ hm.kdims = <<"Year">>
            /\ hm.element.type = "Points"
            /\ Range(hm.kdims) =
                  Range(ns["population"].val.kdims)
                      \ (Range(hm.element.kdims) \cup Range(hm.element.vdims))

\* C7 witness: the points cell has run to its end.
C7_Witness ==
    status[11] = "ok" /\ out[11].type = "Overlay"

\* C8: a bound name stays bound, and by the same cell; once every name is
\* bound, no execution changes the set of bound names or the cell defining
\* each.
C8_OneBinderPerName ==
    [][ /\ \A n \in Names :
              IsBound(ns, n) => DefinedBy(ns')[n] = DefinedBy(ns)[n]
        /\ BoundNames(ns) = Names =>
              /\ BoundNames(ns') = Names
              /\ DefinedBy(ns') = DefinedBy(ns)
      ]_vars

\* C8 witness: after a complete Run All, a cell has been run again to its end.
C8_Witness ==
    /\ Len(history) >= 2
    /\ history[1] = "all"
    /\ history[2] = "one"
    /\ Idle /\ AllOk
    /\ BoundNames(ns) = Names

\* The choropleth loading cell has failed reading referendum.csv.
ReferendumFailed ==
    /\ status[14] = "error"
    /\ err[14].kind = "LoadError"
    /\ err[14].path = "./assets/referendum.csv"

\* What C9 says of a state.
C9_State ==
    /\ ReferendumFailed =>
          /\ IsBound(ns, "shapefile")
          /\ IsBound(ns, "shapes")
          /\ ~IsBound(ns, "referendum")
    /\ \A k \in Cells : \A n \in ReadsOf(k) :
          (status[k] \in {"ok", "error"} /\ ~IsBound(ns, n)) =>
              /\ status[k] = "error"
              /\ err[k].kind \in {"NameError", "UsageError", "LoadError"}
    /\ (status[16] = "error" /\ err[16].kind = "NameError") =>
          err[16].name \in ReadsOf(16)

\* C9: a cell that raises keeps what its earlier statements bound and binds
\* nothing more; a cell that reads a name left unbound ends in error; the
\* image cell runs to its end exactly when the magic, the modules it reads
\* and its own file are there, whatever became of referendum.
C9_NoRollback ==
    [][ /\ C9_State'
        /\ \A k \in executing \ executing' :
              status'[k] = "error" => ns' = ns
        /\ (19 \in executing /\ 19 \notin executing') =>
              (status'[19] = "ok" <=>
                  /\ "opts" \in magics
                  /\ {"xr", "gv", "ccrs", "gf"} \subseteq BoundNames(ns)
                  /\ Exists(files, "./sample-data/pre-industrial.nc"))
      ]_vars

\* C9 witness: referendum.csv failed to load, the choropleth cell failed on
\* the unbound referendum, and the image cell ran to its end.
C9_Witness ==
    /\ ReferendumFailed
    /\ IsBound(ns, "shapes")
    /\ status[16] = "error"
    /\ err[16].kind = "NameError"
    /\ err[16].name = "referendum"
    /\ status[19] = "ok"

====
